---------------------------- MODULE Spec2Model ----------------------------
(***************************************************************************)
(* ProgrammaticToolClient (src/Research/programmatic_tool_client.py): the  *)
(* tool registry, the dispatcher _execute_tool and the agentic loop run.   *)
(*                                                                         *)
(* Representation of Python values:                                        *)
(*   - a str that the program builds or inspects is a sequence of tokens   *)
(*     (<<>> is the empty str, \o is +, Join is "\n".join);                *)
(*   - a dict is a record; a key the dict does not hold carries the marker *)
(*     Missing (dict-valued keys) or MissingStr (str-valued keys), and     *)
(*     Get/GetStr are dict.get with a default;                             *)
(*   - None is the marker None (dict-valued) or NoneStr (str-valued).      *)
(***************************************************************************)
EXTENDS Integers, Sequences, FiniteSets, TLC

VARIABLES
    registrations,      \* the calls of client.tool(...)(fn) made so far, in order
    container_arg,      \* run's argument container_id as the caller passed it
    tools,              \* self._tools: name -> ToolDefinition
    user_message,       \* run's argument
    messages,           \* run's local: the conversation
    container_id,       \* run's argument and local
    total_input,        \* run's local
    total_output,       \* run's local
    total_tool_calls,   \* run's local
    all_raw,            \* run's local: every raw response received
    tool_calls,         \* run's local: tool_use blocks of the current response
    idx,                \* position of the for loop over tool_calls
    tool_results,       \* run's local: results built so far in this turn
    pc,                 \* "request" | "dispatch" | "returned" | "raised"
    result,             \* the RunResult returned, NoResult before
    err,                \* the exception that left run: [type, where], NoError when none
    sent,               \* the kwargs handed to messages.create, one per exchange
    invoked,            \* handler calls made, in order: [name, fn, input, tool_use_id]
    printed,            \* lines printed by print(), in order
    parked              \* the locals of a second run of the client that is
                        \* suspended or not started, NoRun when there is none

vars == <<parked, registrations, container_arg, tools, user_message, messages,
          container_id, total_input, total_output, total_tool_calls, all_raw, tool_calls, idx, tool_results, pc, result,
          err, sent, invoked, printed>>

-----------------------------------------------------------------------------
(* Bounds of the model *)

\* exchanges with the transport in one run
MaxTurns == 3
\* content blocks the transport emits over one run
MaxTotalBlocks == 3

-----------------------------------------------------------------------------
(* Python values *)

Missing == [py_missing |-> TRUE]
None == [py_none |-> TRUE]
MissingStr == "<missing>"
NoneStr == "<None>"

IsMissing(d) == "py_missing" \in DOMAIN d
IsNone(d) == "py_none" \in DOMAIN d

\* d.get(key, default) once d[key] is looked up
Get(v, default) == IF IsMissing(v) THEN default ELSE v
GetStr(s, default) == IF s = MissingStr THEN default ELSE s

\* an int-valued key the dict does not hold
MissingInt == -1
GetInt(n, default) == IF n = MissingInt THEN default ELSE n

\* the dict {}
EmptyDict == [py_empty |-> TRUE]

\* truth value of a str-or-None
TruthyStr(s) == s \notin {NoneStr, MissingStr, ""}
\* truth value of a dict-or-None
TruthyDict(d) == ~IsNone(d) /\ ~IsMissing(d) /\ d # EmptyDict

\* format(x) of a str-or-None inside an f-string
Fmt(s) == IF s = NoneStr THEN "None" ELSE s

\* "\n".join(parts)
RECURSIVE Join(_)
Join(parts) ==
    IF Len(parts) = 0 THEN <<>>
    ELSE IF Len(parts) = 1 THEN parts[1]
    ELSE parts[1] \o <<"\n">> \o Join(Tail(parts))

\* the decimal digits of a natural number
RECURSIVE Digits(_)
Digits(n) ==
    LET d == <<"0", "1", "2", "3", "4", "5", "6", "7", "8", "9">>
    IN IF n < 10 THEN <<d[n + 1]>> ELSE Digits(n \div 10) \o <<d[(n % 10) + 1]>>

\* json.dumps of an int
JsonDumpsInt(n) == IF n < 0 THEN <<"-">> \o Digits(0 - n) ELSE Digits(n)

-----------------------------------------------------------------------------
(* Program constants *)

\* ProgrammaticToolClient.CODE_EXECUTION_TOOL_TYPE
CODE_EXECUTION_TOOL_TYPE == "code_execution_20260120"

\* self._timeout_buffer (timeout_buffer_seconds)
TimeoutBuffer == 30

\* datetime.now(timezone.utc), in seconds
NowUtc == 1000

-----------------------------------------------------------------------------
(* Tool registry *)

\* caller_map with "both" narrowed to the direct caller
CallerMapBothIsDirect(caller) ==
    CASE caller = "direct" -> <<"direct">>
      [] caller = "code_execution" -> <<CODE_EXECUTION_TOOL_TYPE>>
      [] caller = "both" -> <<"direct">>

\* caller_map[caller] of tool()
CallerMap(caller) ==
    CASE caller = "direct" -> <<"direct">>
      [] caller = "code_execution" -> <<CODE_EXECUTION_TOOL_TYPE>>
      [] caller = "both" -> <<"direct", CODE_EXECUTION_TOOL_TYPE>>

\* position of name in the registry (a dict keeps insertion order), 0 if absent
IndexOf(reg, name) ==
    IF \E i \in 1..Len(reg) : reg[i].name = name
    THEN CHOOSE i \in 1..Len(reg) : reg[i].name = name
    ELSE 0

\* tool_name = name or fn.__name__
ToolName(name, fn) == IF TruthyStr(name) THEN name ELSE fn.name

\* a registration under a name already taken is dropped: the first one stays
RegisterToolKeepsFirst(reg, description, input_schema, caller, name, fn) ==
    LET td == [name |-> ToolName(name, fn),
               description |-> description,
               input_schema |-> input_schema,
               handler |-> fn,
               allowed_callers |-> CallerMap(GetStr(caller, "code_execution"))]
    IN IF IndexOf(reg, ToolName(name, fn)) = 0 THEN Append(reg, td) ELSE reg

\* self._tools[tool_name] = ToolDefinition(...): caller defaults to
\* "code_execution", name to the function's name
RegisterTool(reg, description, input_schema, caller, name, fn) ==
    LET td == [name |-> ToolName(name, fn),
               description |-> description,
               input_schema |-> input_schema,
               handler |-> fn,
               allowed_callers |-> CallerMap(GetStr(caller, "code_execution"))]
        i == IndexOf(reg, ToolName(name, fn))
    IN IF i = 0 THEN Append(reg, td) ELSE [reg EXCEPT ![i] = td]

\* one call client.tool(description, input_schema, caller, name)(fn)
Registration(description, input_schema, caller, name, fn) ==
    [description |-> description, input_schema |-> input_schema,
     caller |-> caller, name |-> name, fn |-> fn]

\* the registry after the registrations regs, made in order on reg
RECURSIVE RegisterAll(_, _)
RegisterAll(reg, regs) ==
    IF Len(regs) = 0 THEN reg
    ELSE RegisterAll(RegisterTool(reg, Head(regs).description, Head(regs).input_schema,
                                  Head(regs).caller, Head(regs).name, Head(regs).fn),
                     Tail(regs))

\* name in self._tools
HasTool(reg, name) == IndexOf(reg, name) # 0

\* self._tools[name]
ToolOf(reg, name) == reg[IndexOf(reg, name)]

\* _build_tools
BuildTools(reg) ==
    <<[type |-> CODE_EXECUTION_TOOL_TYPE, name |-> "code_execution"]>>
    \o [i \in 1..Len(reg) |->
          [name |-> reg[i].name,
           description |-> reg[i].description,
           input_schema |-> reg[i].input_schema,
           allowed_callers |-> reg[i].allowed_callers]]

-----------------------------------------------------------------------------
(* Handlers: user code registered with the client.  A call either returns  *)
(* a str, returns an int, or raises; is_exception tells whether the raised *)
(* class derives from Exception (ValueError, TypeError) or only from       *)
(* BaseException (asyncio.CancelledError, SystemExit, KeyboardInterrupt).  *)

Returned(kind, val) ==
    [kind |-> kind, val |-> val, etype |-> "", emsg |-> "", is_exception |-> FALSE]

Raised(etype, emsg, is_exception) ==
    [kind |-> "raise", val |-> <<>>, etype |-> etype, emsg |-> emsg,
     is_exception |-> is_exception]

\* the body of the function fn run on the keyword arguments input_data
CallHandler(fn, input_data) ==
    CASE fn.name = "add" ->
            IF DOMAIN input_data = {"a", "b"}
            THEN Returned("int", input_data.a + input_data.b)
            ELSE Raised("TypeError", "add() got unexpected arguments", TRUE)
      [] fn.name = "echo" ->
            IF DOMAIN input_data = {"text"}
            THEN Returned("str", input_data.text)
            ELSE Raised("TypeError", "echo() got unexpected arguments", TRUE)
      [] fn.name = "boom" -> Raised("ValueError", "bad", TRUE)
      [] fn.name = "quit" -> Raised("CancelledError", "", FALSE)

\* a function object: its __name__ and whether it is a coroutine function
Fn(name, is_async) == [name |-> name, is_async |-> is_async]

\* the registrations made on the client before run
Registrations ==
    <<Registration("adds", "schema_ab", "direct", NoneStr, Fn("add", FALSE)),
      Registration("echoes", "schema_text", MissingStr, NoneStr, Fn("echo", TRUE)),
      Registration("fails", "schema_none", "code_execution", NoneStr, Fn("boom", FALSE)),
      Registration("cancels", "schema_none", "both", NoneStr, Fn("quit", TRUE))>>

\* self._tools after them
Registry == RegisterAll(<<>>, Registrations)

-----------------------------------------------------------------------------
(* _execute_tool *)

\* outcome of a call that returns: no exception leaves the callee
Ok(value, calls) == [raised |-> FALSE, exc |-> "", value |-> value, calls |-> calls]

\* outcome of a call that an exception leaves
Propagates(exc, calls) == [raised |-> TRUE, exc |-> exc, value |-> <<>>, calls |-> calls]

\* except Exception as e: what the clause catches
Catches(out) == out.is_exception

\* calling a coroutine function runs nothing: it returns a coroutine object
Coroutine(fn, input_data) ==
    [kind |-> "coroutine", val |-> <<>>, etype |-> "", emsg |-> "",
     is_exception |-> FALSE, fn |-> fn, input |-> input_data]

\* await coroutine: runs the body
Await(co) == CallHandler(co.fn, co.input)

\* if asyncio.iscoroutinefunction(handler): result = await handler(**input_data)
\* else: result = handler(**input_data)
InvokeHandler(handler, input_data) ==
    IF handler.is_async THEN Await(Coroutine(handler, input_data))
    ELSE CallHandler(handler, input_data)

\* json.dumps of a str: the text between double quotes
JsonDumpsStr(text) == <<"\"">> \o text \o <<"\"">>

\* json.dumps(result) whatever the type of result
ResultTextAlwaysDumps(out) ==
    IF out.kind = "str" THEN JsonDumpsStr(out.val) ELSE JsonDumpsInt(out.val)

\* return result if isinstance(result, str) else json.dumps(result)
ResultText(out) == IF out.kind = "str" THEN out.val ELSE JsonDumpsInt(out.val)

\* json.dumps raises TypeError on a value that is no JSON value
Serializable(out) == out.kind \in {"str", "int"}
NotSerializable(out) ==
    Raised("TypeError", "Object is not JSON serializable", TRUE)

\* f"Error: Unknown tool '{name}'"
UnknownToolText(name) == <<"Error: Unknown tool '", name, "'">>

\* f"Error: {type(e).__name__}: {e}"
HandlerErrorText(out) == <<"Error: ", out.etype, ": ", out.emsg>>

\* the lookup self._tools[name] without the membership test: KeyError
UnknownToolRaises(name) == Propagates("KeyError", <<>>)

\* if name not in self._tools: return ...
UnknownToolResult(name) == Ok(UnknownToolText(name), <<>>)

ExecuteTool(reg, name, input_data) ==
    IF ~HasTool(reg, name)
    THEN UnknownToolResult(name)
    ELSE LET handler == ToolOf(reg, name).handler
             out == InvokeHandler(handler, input_data)
             calls == <<[name |-> name, fn |-> handler.name, input |-> input_data]>>
         IN IF out.kind # "raise"
            THEN IF Serializable(out) THEN Ok(ResultText(out), calls)
                 ELSE Ok(HandlerErrorText(NotSerializable(out)), calls)
            ELSE IF Catches(out) THEN Ok(HandlerErrorText(out), calls)
            ELSE Propagates(out.etype, calls)

\* await self._execute_tool(tc["name"], tc["input"]): only name and input are passed
ExecuteCall(reg, tc) == ExecuteTool(reg, tc.name, tc.input)

-----------------------------------------------------------------------------
(* Helpers of run *)

\* _check_container_expiry: "ok", "warned", or the kind of the exception raised.
\* expires_at is [aware, t]: the instant an ISO-8601 text denotes, and whether
\* the text carries a UTC offset (fromisoformat yields an aware datetime).
CheckContainerExpiry(container) ==
    IF ~TruthyDict(container) \/ IsMissing(container.expires_at) THEN "ok"
    ELSE IF IsNone(container.expires_at) THEN "AttributeError"
    ELSE IF ~container.expires_at.aware THEN "TypeError"
    ELSE IF container.expires_at.t - NowUtc < TimeoutBuffer THEN "warned"
    ELSE "ok"

IsToolUse(block) == block.type = "tool_use"
IsText(block) == block.type = "text"

\* only the first tool_use block is taken
ExtractFirstToolCall(content) ==
    IF Len(SelectSeq(content, IsToolUse)) = 0 THEN <<>>
    ELSE <<SelectSeq(content, IsToolUse)[1]>>

\* the tool_use blocks taken last first
ExtractToolCallsReversed(content) ==
    [i \in 1..Len(SelectSeq(content, IsToolUse)) |->
        SelectSeq(content, IsToolUse)[Len(SelectSeq(content, IsToolUse)) + 1 - i]]

\* _extract_tool_calls
ExtractToolCalls(content) == SelectSeq(content, IsToolUse)

\* _is_programmatic: [raised, value]
IsProgrammatic(tool_call) ==
    LET caller == Get(tool_call.caller, EmptyDict)
    IN IF IsNone(caller) THEN [raised |-> TRUE, value |-> FALSE]
       ELSE IF caller = EmptyDict THEN [raised |-> FALSE, value |-> TRUE]
       ELSE [raised |-> FALSE, value |-> GetStr(caller.type, "") # "direct"]

\* [block["text"] for block in content if block.get("type") == "text"]
TextParts(content) ==
    [i \in 1..Len(SelectSeq(content, IsText)) |-> SelectSeq(content, IsText)[i].text]

\* only the first text block is taken
FinalTextFirstOnly(content) ==
    IF Len(TextParts(content)) = 0 THEN <<>> ELSE TextParts(content)[1]

\* text of the RunResult returned on end_turn
FinalText(content) == Join(TextParts(content))

\* text of the RunResult returned on an unexpected stop reason
FallbackText(content, stop_reason) ==
    IF Join(TextParts(content)) # <<>> THEN Join(TextParts(content))
    ELSE <<"Unexpected stop: ", Fmt(stop_reason)>>

NoResult == [text |-> <<"<no RunResult>">>]

\* no second run of the client
NoRun == [pc |-> "none"]

\* the handle of a response is never taken over
AdoptContainerNever(container, cid) == cid

\* if container: container_id = container.get("id", container_id)
AdoptContainer(container, cid) ==
    IF TruthyDict(container) THEN GetStr(container.id, cid) ELSE cid

\* total = usage.get(key, 0): the count of the last response only
AddUsageOverwrite(total, n) == GetInt(n, 0)

\* total += usage.get(key, 0)
AddUsage(total, n) == total + GetInt(n, 0)

NoError == [type |-> "", where |-> ""]

\* tool_calls_made reports the number of tool_use turns
RunResultCountsTurns(text, calls, cid, tin, tout, raw) ==
    [text |-> text, tool_calls_made |-> Len(raw) - 1, container_id |-> cid,
     total_input_tokens |-> tin, total_output_tokens |-> tout, raw_messages |-> raw]

RunResult(text, calls, cid, tin, tout, raw) ==
    [text |-> text, tool_calls_made |-> calls, container_id |-> cid,
     total_input_tokens |-> tin, total_output_tokens |-> tout, raw_messages |-> raw]

ToolResult(tc, result_str) ==
    [type |-> "tool_result", tool_use_id |-> tc.id, content |-> result_str]

\* the assistant turn keeps only the tool_use blocks of the response
AppendTurnsToolUseOnly(msgs, content, results) ==
    msgs \o <<[role |-> "assistant", content |-> SelectSeq(content, IsToolUse)],
              [role |-> "user", content |-> results]>>

\* the two messages.append calls closing a tool_use turn
AppendTurns(msgs, content, results) ==
    msgs \o <<[role |-> "assistant", content |-> content],
              [role |-> "user", content |-> results]>>

\* kwargs of messages.create
Request(msgs, catalog, cid) ==
    [messages |-> msgs, tools |-> catalog,
     container |-> IF TruthyStr(cid) THEN cid ELSE MissingStr]

\* messages = [{"role": "user", "content": user_message}]
InitialMessages(um) == <<[role |-> "user", content |-> um]>>

-----------------------------------------------------------------------------
(* The transport's responses *)

TextBlock(t) == [type |-> "text", text |-> t]

ToolUseBlock(name, input, caller) ==
    [type |-> "tool_use", id |-> 0, name |-> name, input |-> input, caller |-> caller]

CallerOf(t) == [type |-> t]

\* tool_use ids are unique: block i of response k gets id 10 * k + i
WithIds(content, k) ==
    [i \in 1..Len(content) |->
        IF IsToolUse(content[i]) THEN [content[i] EXCEPT !.id = 10 * k + i]
        ELSE content[i]]

Usage(i, o) == [input_tokens |-> i, output_tokens |-> o]

Container(id, expires_at) == [id |-> id, expires_at |-> expires_at]

ExpiresAt(aware, t) == [aware |-> aware, t |-> t]

Response(stop_reason, content, usage, container) ==
    [stop_reason |-> stop_reason, content |-> content, usage |-> usage,
     container |-> container]

StopReasons == {"end_turn", "tool_use", "max_tokens"}

\* blocks: two texts, a tool that returns, one that raises, an unknown tool,
\* a block whose caller is None, a tool whose handler is cancelled
Blocks ==
    {TextBlock(<<"a">>), TextBlock(<<>>),
     ToolUseBlock("add", [a |-> 1, b |-> 2], CallerOf("direct")),
     ToolUseBlock("boom", EmptyDict, CallerOf(CODE_EXECUTION_TOOL_TYPE)),
     ToolUseBlock("nope", EmptyDict, Missing),
     ToolUseBlock("add", [a |-> 1, b |-> 2], None),
     ToolUseBlock("quit", EmptyDict, CallerOf(MissingStr))}

Containers == {Missing}

Usages == {Usage(2, 1)}

ContainerArgs == {NoneStr}

UserMessages == {"q"}

\* number of content blocks received so far
RECURSIVE TotalBlocks(_)
TotalBlocks(raw) ==
    IF Len(raw) = 0 THEN 0 ELSE Len(Head(raw).content) + TotalBlocks(Tail(raw))

\* the responses the transport may give as exchange k, n blocks being left
Responses(bs, cs, us, k, n) ==
    {Response(s, WithIds(c, k), u, ct) :
        s \in StopReasons,
        c \in UNION {[1..m -> bs] : m \in 0..n},
        u \in us, ct \in cs}

-----------------------------------------------------------------------------
(* run *)

InitWith(cargs, ums) ==
    /\ registrations = Registrations
    /\ tools = Registry
    /\ user_message \in ums
    /\ messages = InitialMessages(user_message)
    /\ container_arg \in cargs
    /\ container_id = container_arg
    /\ total_input = 0
    /\ total_output = 0
    /\ total_tool_calls = 0
    /\ all_raw = <<>>
    /\ tool_calls = <<>>
    /\ idx = 0
    /\ tool_results = <<>>
    /\ pc = "request"
    /\ result = NoResult
    /\ err = NoError
    /\ sent = <<>>
    /\ invoked = <<>>
    /\ printed = <<>>
    /\ parked = NoRun

Init == InitWith(ContainerArgs, UserMessages)

\* an exception of class exc, raised in frame where, leaves run
Raise(exc, where) ==
    /\ pc' = "raised"
    /\ err' = [type |-> exc, where |-> where]
    /\ UNCHANGED result

\* one pass of the while loop from its top to the first await, the return or
\* the next pass: the request, the exchange, usage, container, stop reason
Exchange(raw) ==
    /\ pc = "request"
    /\ sent' = Append(sent, Request(messages, BuildTools(tools), container_id))
    /\ all_raw' = Append(all_raw, raw)
    /\ LET usage == IF IsNone(raw.usage) THEN Usage(0, 0)
                    ELSE Get(raw.usage, Usage(MissingInt, MissingInt))
           container == raw.container
           cid == AdoptContainer(container, container_id)
           expiry == CheckContainerExpiry(container)
           stop_reason == GetStr(raw.stop_reason, "")
           content == raw.content
           tin == AddUsage(total_input, usage.input_tokens)
           tout == AddUsage(total_output, usage.output_tokens)
           calls == ExtractToolCalls(content)
       IN /\ total_input' = IF IsNone(raw.usage) THEN total_input ELSE tin
          /\ total_output' = IF IsNone(raw.usage) THEN total_output ELSE tout
          /\ container_id' = IF IsNone(raw.usage) THEN container_id ELSE cid
          /\ printed' = IF expiry = "warned" /\ ~IsNone(raw.usage)
                        THEN Append(printed, [kind |-> "expiry", src |-> "", name |-> ""])
                        ELSE printed
          /\ IF IsNone(raw.usage)
             THEN /\ Raise("AttributeError", "run")
                  /\ UNCHANGED <<messages, tool_calls, idx, tool_results>>
             ELSE IF expiry \notin {"ok", "warned"}
             THEN /\ Raise(expiry, "_check_container_expiry")
                  /\ UNCHANGED <<messages, tool_calls, idx, tool_results>>
             ELSE IF stop_reason = "end_turn"
             THEN /\ pc' = "returned"
                  /\ result' = RunResult(FinalText(content), total_tool_calls, cid,
                                         tin, tout, all_raw')
                  /\ UNCHANGED <<err, messages, tool_calls, idx, tool_results>>
             ELSE IF stop_reason = "tool_use"
             THEN /\ tool_calls' = calls
                  /\ tool_results' = <<>>
                  /\ UNCHANGED <<err, result>>
                  /\ IF Len(calls) = 0
                     THEN /\ messages' = AppendTurns(messages, content, <<>>)
                          /\ idx' = 0
                          /\ pc' = "request"
                     ELSE /\ idx' = 1
                          /\ pc' = "dispatch"
                          /\ UNCHANGED messages
             ELSE /\ pc' = "returned"
                  /\ result' = RunResult(FallbackText(content, stop_reason),
                                         total_tool_calls, cid, tin, tout, all_raw')
                  /\ UNCHANGED <<err, messages, tool_calls, idx, tool_results>>
    /\ UNCHANGED <<parked, registrations, container_arg, tools, user_message,
                   total_tool_calls, invoked>>

\* the exception of messages.create is swallowed and the loop goes round again
TransportFailRetries ==
    /\ pc = "request"
    /\ Len(sent) < MaxTurns
    /\ sent' = Append(sent, Request(messages, BuildTools(tools), container_id))
    /\ UNCHANGED <<parked, registrations, container_arg, tools, user_message, messages,
                   container_id, total_input, total_output, total_tool_calls,
                   all_raw, tool_calls, idx, tool_results, invoked, printed,
                   pc, result, err>>

\* self._client.messages.create raises
TransportFail ==
    /\ pc = "request"
    /\ Len(all_raw) < MaxTurns
    /\ sent' = Append(sent, Request(messages, BuildTools(tools), container_id))
    /\ Raise("TransportError", "messages.create")
    /\ UNCHANGED <<parked, registrations, container_arg, tools, user_message, messages,
                   container_id, total_input, total_output, total_tool_calls,
                   all_raw, tool_calls, idx, tool_results, invoked, printed>>

\* one pass of the for loop over tool_calls; after the last one the turn is
\* closed by the two appends
Dispatch ==
    /\ pc = "dispatch"
    /\ LET tc == tool_calls[idx]
           is_prog == IsProgrammatic(tc)
           out == ExecuteCall(tools, tc)
           results == Append(tool_results, ToolResult(tc, out.value))
       IN /\ total_tool_calls' = total_tool_calls + 1
          /\ IF is_prog.raised
             THEN /\ Raise("AttributeError", "_is_programmatic")
                  /\ UNCHANGED <<messages, idx, tool_results, invoked, printed>>
             ELSE /\ invoked' = invoked \o
                        [i \in 1..Len(out.calls) |->
                            [name |-> out.calls[i].name, fn |-> out.calls[i].fn,
                             input |-> out.calls[i].input, tool_use_id |-> tc.id]]
                  /\ IF out.raised
                     THEN /\ Raise(out.exc, "_execute_tool")
                          /\ UNCHANGED <<messages, idx, tool_results, printed>>
                     ELSE /\ tool_results' = results
                          /\ printed' = Append(printed,
                                [kind |-> "tool",
                                 src |-> IF is_prog.value THEN "programmatic" ELSE "direct",
                                 name |-> tc.name])
                          /\ UNCHANGED <<err, result>>
                          /\ IF idx = Len(tool_calls)
                             THEN /\ messages' = AppendTurns(messages,
                                                     all_raw[Len(all_raw)].content, results)
                                  /\ pc' = "request"
                                  /\ UNCHANGED idx
                             ELSE /\ idx' = idx + 1
                                  /\ UNCHANGED <<pc, messages>>
    /\ UNCHANGED <<parked, registrations, container_arg, tools, user_message, container_id,
                   total_input, total_output, all_raw, tool_calls, sent>>

\* the transport answers exchange Len(all_raw) + 1
Receive(bs, cs, us) ==
    /\ Len(all_raw) < MaxTurns
    /\ \E raw \in Responses(bs, cs, us, Len(all_raw) + 1,
                            MaxTotalBlocks - TotalBlocks(all_raw)) :
          Exchange(raw)

Next == Receive(Blocks, Containers, Usages) \/ TransportFail \/ Dispatch

Spec == Init /\ [][Next]_vars

-----------------------------------------------------------------------------
(* Runs whose responses carry a session descriptor: the container may be   *)
(* absent, far from expiry, close to expiry, expired, carry an ISO-8601    *)
(* expires_at without a UTC offset, or lack the id.                        *)

SessionBlocks == {ToolUseBlock("add", [a |-> 1, b |-> 2], CallerOf("direct"))}

SessionContainers ==
    {Missing,
     Container("c1", ExpiresAt(TRUE, NowUtc + 60)),
     Container("c2", ExpiresAt(TRUE, NowUtc + 10)),
     Container("c2", ExpiresAt(TRUE, NowUtc - 5)),
     Container("c1", ExpiresAt(FALSE, NowUtc + 60)),
     Container(MissingStr, ExpiresAt(TRUE, NowUtc + 60))}

SessionContainerArgs == {NoneStr, "c0"}

InitSession == InitWith(SessionContainerArgs, UserMessages)

NextSession ==
    Receive(SessionBlocks, SessionContainers, Usages) \/ TransportFail \/ Dispatch

SpecSession == InitSession /\ [][NextSession]_vars

-----------------------------------------------------------------------------
(* Runs that dispatch tools that return: a coroutine function returning a  *)
(* str, a plain function returning an int, each called under a caller tag  *)
(* its allowed_callers lacks, and the same call under every caller tag:    *)
(* direct, code execution, the key missing, the key holding None.          *)

DispatchBlocks ==
    {ToolUseBlock("echo", [text |-> <<"hi">>], CallerOf("direct")),
     ToolUseBlock("add", [a |-> 7, b |-> 5], CallerOf(CODE_EXECUTION_TOOL_TYPE)),
     ToolUseBlock("add", [a |-> 7, b |-> 5], CallerOf("direct")),
     ToolUseBlock("add", [a |-> 7, b |-> 5], Missing),
     ToolUseBlock("add", [a |-> 7, b |-> 5], None)}

NextDispatch ==
    Receive(DispatchBlocks, Containers, Usages) \/ TransportFail \/ Dispatch

SpecDispatch == Init /\ [][NextDispatch]_vars

-----------------------------------------------------------------------------
(* Clients whose tools are registered in any order before run is called:   *)
(* two registrations share the name add, two the name echo, one of each    *)
(* pair through the name argument; every caller setting occurs.            *)

RegistrationInputs ==
    {Registration("adds", "schema_ab", "direct", NoneStr, Fn("add", FALSE)),
     Registration("adds text", "schema_text", "both", "add", Fn("echo", TRUE)),
     Registration("echoes", "schema_text", MissingStr, NoneStr, Fn("echo", TRUE)),
     Registration("fails", "schema_none", "code_execution", "echo", Fn("boom", FALSE))}

RegistryBlocks ==
    {ToolUseBlock("add", [a |-> 7, b |-> 5], CallerOf("direct")),
     ToolUseBlock("echo", [text |-> <<"hi">>], CallerOf(CODE_EXECUTION_TOOL_TYPE))}

\* client = ProgrammaticToolClient(): no tool registered, run not called yet
InitRegistry ==
    /\ registrations = <<>>
    /\ tools = <<>>
    /\ user_message \in UserMessages
    /\ messages = InitialMessages(user_message)
    /\ container_arg \in ContainerArgs
    /\ container_id = container_arg
    /\ total_input = 0
    /\ total_output = 0
    /\ total_tool_calls = 0
    /\ all_raw = <<>>
    /\ tool_calls = <<>>
    /\ idx = 0
    /\ tool_results = <<>>
    /\ pc = "setup"
    /\ result = NoResult
    /\ err = NoError
    /\ sent = <<>>
    /\ invoked = <<>>
    /\ printed = <<>>
    /\ parked = NoRun

\* one decorator statement @client.tool(...) runs; each statement runs once
Register ==
    /\ pc = "setup"
    /\ \E r \in RegistrationInputs :
          /\ \A i \in 1..Len(registrations) : registrations[i] # r
          /\ registrations' = Append(registrations, r)
          /\ tools' = RegisterTool(tools, r.description, r.input_schema,
                                   r.caller, r.name, r.fn)
    /\ UNCHANGED <<parked, container_arg, user_message, messages, container_id, total_input,
                   total_output, total_tool_calls, all_raw, tool_calls, idx,
                   tool_results, pc, result, err, sent, invoked, printed>>

\* run is called
Start ==
    /\ pc = "setup"
    /\ pc' = "request"
    /\ UNCHANGED <<parked, registrations, container_arg, tools, user_message, messages,
                   container_id, total_input, total_output, total_tool_calls,
                   all_raw, tool_calls, idx, tool_results, result, err, sent,
                   invoked, printed>>

NextRegistry ==
    \/ Register
    \/ Start
    \/ Receive(RegistryBlocks, Containers, Usages)
    \/ TransportFail
    \/ Dispatch

SpecRegistry == InitRegistry /\ [][NextRegistry]_vars

-----------------------------------------------------------------------------
(* Runs whose responses report usage in full, in part, or not at all.      *)

UsageBlocks == {ToolUseBlock("add", [a |-> 1, b |-> 2], CallerOf("direct"))}

UsageUsages == {Missing, Usage(2, 1), Usage(5, MissingInt)}

NextUsage ==
    Receive(UsageBlocks, Containers, UsageUsages) \/ TransportFail \/ Dispatch

SpecUsage == Init /\ [][NextUsage]_vars

-----------------------------------------------------------------------------
(* Two runs of one client on one event loop.  The variables of the loop    *)
(* are the locals of the run that is executing; parked holds the locals of *)
(* the other run, sent, invoked and printed record what the executing run  *)
(* did.  messages.create is a plain call, so a run gives up the  *)
(* event loop only while it awaits a handler that is a coroutine function, *)
(* and when it ends.  In the specifications of a single run no other task  *)
(* can run during that await, and Dispatch is one step there.              *)

\* the locals of the run that is executing
Locals ==
    [user_message |-> user_message, container_arg |-> container_arg,
     messages |-> messages, container_id |-> container_id,
     total_input |-> total_input, total_output |-> total_output,
     total_tool_calls |-> total_tool_calls, all_raw |-> all_raw,
     tool_calls |-> tool_calls, idx |-> idx, tool_results |-> tool_results,
     pc |-> pc, result |-> result, err |-> err,
     sent |-> sent, invoked |-> invoked, printed |-> printed]

\* the locals of a run called with um and carg whose body has not begun
NotStarted(um, carg) ==
    [user_message |-> um, container_arg |-> carg,
     messages |-> InitialMessages(um), container_id |-> carg,
     total_input |-> 0, total_output |-> 0, total_tool_calls |-> 0,
     all_raw |-> <<>>, tool_calls |-> <<>>, idx |-> 0, tool_results |-> <<>>,
     pc |-> "request", result |-> NoResult, err |-> NoError,
     sent |-> <<>>, invoked |-> <<>>, printed |-> <<>>]

\* what the transport answers to either run: a turn that awaits the
\* coroutine function echo, a turn that calls add and awaits echo and
\* carries the handle c1, and a final text
TwoRunResponses ==
    {Response("tool_use",
              <<ToolUseBlock("echo", [text |-> <<"hi">>],
                             CallerOf(CODE_EXECUTION_TOOL_TYPE))>>,
              Usage(2, 1), Missing),
     Response("tool_use",
              <<ToolUseBlock("add", [a |-> 1, b |-> 2], CallerOf("direct")),
                ToolUseBlock("echo", [text |-> <<"ho">>],
                             CallerOf(CODE_EXECUTION_TOOL_TYPE))>>,
              Usage(5, 3), Container("c1", ExpiresAt(TRUE, NowUtc + 60))),
     Response("end_turn", <<TextBlock(<<"a">>)>>, Usage(2, 1), Missing)}

\* the transport answers the exchange of the executing run with one of rs
ReceiveFrom(rs) ==
    /\ Len(all_raw) < MaxTurns
    /\ \E r \in rs :
          Exchange([r EXCEPT !.content = WithIds(r.content, Len(all_raw) + 1)])

\* asyncio.gather(client.run("q"), client.run("r", container_id="c0"))
InitTwoRuns ==
    /\ registrations = Registrations
    /\ tools = Registry
    /\ user_message = "q"
    /\ messages = InitialMessages(user_message)
    /\ container_arg = NoneStr
    /\ container_id = container_arg
    /\ total_input = 0
    /\ total_output = 0
    /\ total_tool_calls = 0
    /\ all_raw = <<>>
    /\ tool_calls = <<>>
    /\ idx = 0
    /\ tool_results = <<>>
    /\ pc = "request"
    /\ result = NoResult
    /\ err = NoError
    /\ sent = <<>>
    /\ invoked = <<>>
    /\ printed = <<>>
    /\ parked = NotStarted("r", "c0")

\* the for loop is at an invocation whose handler is a coroutine function:
\* _execute_tool awaits it
Suspends ==
    /\ pc = "dispatch"
    /\ ~IsProgrammatic(tool_calls[idx]).raised
    /\ HasTool(tools, tool_calls[idx].name)
    /\ ToolOf(tools, tool_calls[idx].name).handler.is_async

\* a pass of the for loop that awaits nothing that suspends
DispatchInline == ~Suspends /\ Dispatch

\* a pass of the for loop up to the await of the handler
DispatchStart ==
    /\ Suspends
    /\ total_tool_calls' = total_tool_calls + 1
    /\ invoked' = Append(invoked,
            [name |-> tool_calls[idx].name,
             fn |-> ToolOf(tools, tool_calls[idx].name).handler.name,
             input |-> tool_calls[idx].input, tool_use_id |-> tool_calls[idx].id])
    /\ pc' = "awaiting"
    /\ UNCHANGED <<parked, registrations, container_arg, tools, user_message,
                   messages, container_id, total_input, total_output, all_raw,
                   tool_calls, idx, tool_results, result, err, sent, printed>>

\* the awaited handler ends: the rest of the pass of the for loop
DispatchResume ==
    /\ pc = "awaiting"
    /\ LET tc == tool_calls[idx]
           is_prog == IsProgrammatic(tc)
           out == ExecuteCall(tools, tc)
           results == Append(tool_results, ToolResult(tc, out.value))
       IN IF out.raised
          THEN /\ Raise(out.exc, "_execute_tool")
               /\ UNCHANGED <<messages, idx, tool_results, printed>>
          ELSE /\ tool_results' = results
               /\ printed' = Append(printed,
                     [kind |-> "tool",
                      src |-> IF is_prog.value THEN "programmatic" ELSE "direct",
                      name |-> tc.name])
               /\ UNCHANGED <<err, result>>
               /\ IF idx = Len(tool_calls)
                  THEN /\ messages' = AppendTurns(messages,
                                          all_raw[Len(all_raw)].content, results)
                       /\ pc' = "request"
                       /\ UNCHANGED idx
                  ELSE /\ idx' = idx + 1
                       /\ pc' = "dispatch"
                       /\ UNCHANGED messages
    /\ UNCHANGED <<parked, registrations, container_arg, tools, user_message,
                   container_id, total_input, total_output, total_tool_calls,
                   all_raw, tool_calls, sent, invoked>>

\* the counters live on the client (self.total_...): a task switch leaves them
SwitchSharedCounters ==
    /\ pc \in {"awaiting", "returned", "raised"}
    /\ parked.pc \in {"request", "awaiting"}
    /\ parked' = Locals
    /\ user_message' = parked.user_message
    /\ container_arg' = parked.container_arg
    /\ messages' = parked.messages
    /\ container_id' = parked.container_id
    /\ all_raw' = parked.all_raw
    /\ tool_calls' = parked.tool_calls
    /\ idx' = parked.idx
    /\ tool_results' = parked.tool_results
    /\ pc' = parked.pc
    /\ result' = parked.result
    /\ err' = parked.err
    /\ sent' = parked.sent
    /\ invoked' = parked.invoked
    /\ printed' = parked.printed
    /\ UNCHANGED <<total_input, total_output, total_tool_calls, registrations, tools>>

\* the event loop leaves the run that is suspended or has ended and goes on
\* with the other one: every local of run belongs to the run's own frame
Switch ==
    /\ pc \in {"awaiting", "returned", "raised"}
    /\ parked.pc \in {"request", "awaiting"}
    /\ parked' = Locals
    /\ user_message' = parked.user_message
    /\ container_arg' = parked.container_arg
    /\ messages' = parked.messages
    /\ container_id' = parked.container_id
    /\ total_input' = parked.total_input
    /\ total_output' = parked.total_output
    /\ total_tool_calls' = parked.total_tool_calls
    /\ all_raw' = parked.all_raw
    /\ tool_calls' = parked.tool_calls
    /\ idx' = parked.idx
    /\ tool_results' = parked.tool_results
    /\ pc' = parked.pc
    /\ result' = parked.result
    /\ err' = parked.err
    /\ sent' = parked.sent
    /\ invoked' = parked.invoked
    /\ printed' = parked.printed
    /\ UNCHANGED <<registrations, tools>>

NextTwoRuns ==
    \/ ReceiveFrom(TwoRunResponses)
    \/ TransportFail
    \/ DispatchInline
    \/ DispatchStart
    \/ DispatchResume
    \/ Switch

SpecTwoRuns == InitTwoRuns /\ [][NextTwoRuns]_vars

-----------------------------------------------------------------------------
(* Vocabulary of the properties *)

Last(seq) == seq[Len(seq)]

Contains(str, token) == \E i \in 1..Len(str) : str[i] = token

ToolUsesOf(content) == SelectSeq(content, LAMBDA b : b.type = "tool_use")

TextsOf(content) == SelectSeq(content, LAMBDA b : b.type = "text")

RegisteredNames == {tools[i].name : i \in 1..Len(tools)}

\* the turns closed so far: response k has its two turns in messages
ClosedTurns == {k \in 1..Len(all_raw) : 2 * k + 1 <= Len(messages)}

\* the tool_result entries built so far, in closed turns and in the open one
AllToolResults ==
    {tool_results[i] : i \in 1..Len(tool_results)}
    \cup UNION {{messages[2 * k + 1].content[i] :
                    i \in 1..Len(messages[2 * k + 1].content)} : k \in ClosedTurns}

\* text blocks joined by newlines, written out position by position
RECURSIVE NewlineJoined(_, _)
NewlineJoined(content, i) ==
    IF i > Len(content) THEN <<>>
    ELSE IF content[i].type # "text" THEN NewlineJoined(content, i + 1)
    ELSE IF \E j \in (i + 1)..Len(content) : content[j].type = "text"
         THEN content[i].text \o <<"\n">> \o NewlineJoined(content, i + 1)
         ELSE content[i].text

\* number of tool_use blocks in the responses whose stop_reason is tool_use
RECURSIVE ToolUseCount(_)
ToolUseCount(raw) ==
    IF Len(raw) = 0 THEN 0
    ELSE (IF Head(raw).stop_reason = "tool_use"
          THEN Len(ToolUsesOf(Head(raw).content)) ELSE 0)
         + ToolUseCount(Tail(raw))

-----------------------------------------------------------------------------
(* C1: the conversation handed to the transport on exchange k+1 is the one *)
(* of exchange k extended by exactly the assistant turn holding response   *)
(* k's content and one user turn holding only tool_result entries; the     *)
(* first conversation is the single user turn holding user_message.        *)
C1_ConversationExtends ==
    /\ Len(sent) >= 1 =>
          sent[1].messages = <<[role |-> "user", content |-> user_message]>>
    /\ \A k \in 1..(Len(sent) - 1) :
          LET prev == sent[k].messages
              cur == sent[k + 1].messages
              n == Len(prev)
          IN /\ Len(cur) = n + 2
             /\ SubSeq(cur, 1, n) = prev
             /\ cur[n + 1] = [role |-> "assistant", content |-> all_raw[k].content]
             /\ cur[n + 2].role = "user"
             /\ \A i \in 1..Len(cur[n + 2].content) :
                   cur[n + 2].content[i].type = "tool_result"

C1_Witness ==
    /\ Len(sent) = 3
    /\ Len(sent[3].messages) = 5
    /\ Len(sent[2].messages[3].content) = 2
    /\ Len(sent[3].messages[5].content) = 0

(* C2: the tool-result turn of a tool_use response has one tool_result per *)
(* tool_use block of that response, none when there are none, entry i      *)
(* carrying the id of the i-th tool_use block, and no other entry.         *)
C2_ResultTurnShape ==
    /\ pc = "request" => Len(messages) = 2 * Len(all_raw) + 1
    /\ \A k \in ClosedTurns :
          LET calls == ToolUsesOf(all_raw[k].content)
              turn == messages[2 * k + 1].content
          IN /\ all_raw[k].stop_reason = "tool_use"
             /\ Len(turn) = Len(calls)
             /\ \A i \in 1..Len(turn) :
                   /\ turn[i].type = "tool_result"
                   /\ turn[i].tool_use_id = calls[i].id

C2_Witness ==
    \E k \in ClosedTurns :
        /\ Len(all_raw[k].content) = 3
        /\ all_raw[k].content[2].type = "text"
        /\ Len(messages[2 * k + 1].content) = 2
        /\ messages[2 * k + 1].content[1].tool_use_id = all_raw[k].content[1].id
        /\ messages[2 * k + 1].content[2].tool_use_id = all_raw[k].content[3].id

(* C3: a run that returns reports in tool_calls_made the number of         *)
(* tool_use blocks of all its tool_use responses, whatever the outcome of  *)
(* each dispatch; the counter never decreases.                             *)
C3_Returned ==
    pc = "returned" => result.tool_calls_made = ToolUseCount(all_raw)

C3_ToolCallsMade ==
    /\ []C3_Returned
    /\ [][total_tool_calls' >= total_tool_calls]_vars

C3_Witness ==
    /\ pc = "returned"
    /\ Len(all_raw) = 3
    /\ result.tool_calls_made = 3
    /\ \E r \in AllToolResults : Contains(r.content, "Error: Unknown tool '")
    /\ \E r \in AllToolResults : Contains(r.content, "ValueError")

(* C4: a run ending in end_turn returns as text the newline join of the    *)
(* text blocks of the final response, in order, other blocks and earlier   *)
(* responses ignored; the empty str when the final response has no text.   *)
C4_FinalText ==
    (pc = "returned" /\ Last(all_raw).stop_reason = "end_turn") =>
        /\ result.text = NewlineJoined(Last(all_raw).content, 1)
        /\ Len(TextsOf(Last(all_raw).content)) = 0 => result.text = <<>>

C4_Witness ==
    /\ pc = "returned"
    /\ Last(all_raw).stop_reason = "end_turn"
    /\ Len(Last(all_raw).content) = 3
    /\ Last(all_raw).content[2].type = "tool_use"
    /\ result.text = <<"a", "\n">>

(* C5: a response whose stop condition is neither end_turn nor tool_use    *)
(* ends the run without raising and without dispatching: a RunResult is    *)
(* returned with the current totals, its text the newline join of the      *)
(* response's text blocks, or the placeholder when there is no text.       *)
C5_UnexpectedStopReturns ==
    (Len(all_raw) >= 1 /\ Last(all_raw).stop_reason \notin {"end_turn", "tool_use"}) =>
        /\ pc = "returned"
        /\ result.text =
              IF NewlineJoined(Last(all_raw).content, 1) # <<>>
              THEN NewlineJoined(Last(all_raw).content, 1)
              ELSE <<"Unexpected stop: ", Last(all_raw).stop_reason>>
        /\ result.tool_calls_made = ToolUseCount(all_raw)
        /\ \A i \in 1..Len(invoked) : invoked[i].tool_use_id < 10 * Len(all_raw)

(* C6: the loop is left only by returning a RunResult at the first         *)
(* response whose stop_reason is not tool_use; no exchange follows it.     *)
C6_OnlyExits ==
    /\ (pc \notin {"request", "dispatch"} /\ err.type # "TransportError") =>
          /\ pc = "returned"
          /\ Last(all_raw).stop_reason # "tool_use"
          /\ \A k \in 1..(Len(all_raw) - 1) : all_raw[k].stop_reason = "tool_use"
          /\ Len(sent) = Len(all_raw)
    /\ (Len(all_raw) >= 1 /\ Last(all_raw).stop_reason # "tool_use") => pc = "returned"

(* C7: with every exchange and handler call completing, the run returns    *)
(* exactly when the transport has produced a response whose stop_reason is *)
(* not tool_use; while every response is tool_use the loop keeps going.    *)
C7_ReturnsIffTerminalResponse ==
    err.type # "TransportError" =>
        /\ (pc = "returned") <=>
              (\E k \in 1..Len(all_raw) : all_raw[k].stop_reason # "tool_use")
        /\ (\A k \in 1..Len(all_raw) : all_raw[k].stop_reason = "tool_use") =>
              pc \in {"request", "dispatch"}

(* C8: a handler that raises, whatever the error, makes neither dispatch   *)
(* nor run raise: its invocation gets a tool_result naming the error's     *)
(* kind and message.                                                       *)
C8_HandlerErrorsContained ==
    \A i \in 1..Len(invoked) :
        LET out == CallHandler(ToolOf(tools, invoked[i].name).handler, invoked[i].input)
        IN out.kind = "raise" =>
              /\ ~(pc = "raised" /\ err.where = "_execute_tool")
              /\ \E r \in AllToolResults :
                    /\ r.tool_use_id = invoked[i].tool_use_id
                    /\ Contains(r.content, out.etype)
                    /\ Contains(r.content, out.emsg)

(* C9: dispatching a name the registry does not hold calls no handler and  *)
(* does not raise; the invocation's tool_result carries the unknown-tool   *)
(* marker and the name, and the loop goes on.                              *)
C9_UnknownTool ==
    /\ \A i \in 1..Len(invoked) : invoked[i].name \in RegisteredNames
    /\ \A k \in ClosedTurns :
          LET calls == ToolUsesOf(all_raw[k].content)
          IN \A i \in 1..Len(calls) :
                calls[i].name \notin RegisteredNames =>
                    /\ \A j \in 1..Len(invoked) : invoked[j].tool_use_id # calls[i].id
                    /\ \E r \in AllToolResults :
                          /\ r.tool_use_id = calls[i].id
                          /\ Contains(r.content, "Error: Unknown tool '")
                          /\ Contains(r.content, calls[i].name)
    /\ pc \in {"dispatch", "raised"} =>
          \A i \in 1..Len(tool_calls) :
              (tool_calls[i].name \notin RegisteredNames /\ ~IsNone(tool_calls[i].caller)) =>
                  /\ (pc = "raised" /\ err.where \in {"_execute_tool", "_is_programmatic"})
                        => idx # i
                  /\ (i < idx /\ err.where # "_check_container_expiry") =>
                        /\ Len(tool_results) >= i
                        /\ tool_results[i].tool_use_id = tool_calls[i].id
                        /\ Contains(tool_results[i].content, "Error: Unknown tool '")
                        /\ Contains(tool_results[i].content, tool_calls[i].name)

C9_Witness ==
    /\ pc = "request"
    /\ \E k \in ClosedTurns :
          /\ Len(ToolUsesOf(all_raw[k].content)) = 2
          /\ ToolUsesOf(all_raw[k].content)[1].name = "nope"
          /\ ToolUsesOf(all_raw[k].content)[2].name = "add"
          /\ Len(messages[2 * k + 1].content) = 2
          /\ Len(invoked) = 1

(* C10: run raises only when the transport fails: no well-formed response  *)
(* and no handler behaviour makes it raise.                                *)
C10_OnlyTransportErrors ==
    pc = "raised" => err.type = "TransportError"



-----------------------------------------------------------------------------
(* C11 *)

\* a request was handed to the transport and no response came back
ExchangeFailed == Len(sent) = Len(all_raw) + 1

\* C11: when the exchange with the model fails on any turn, the failure leaves
\* run as an error: the failed exchange is the last request made (no retry),
\* no RunResult is returned, and nothing happens afterwards (no further
\* request, no further tool dispatched).
C11_TransportFailurePropagates ==
    /\ [](/\ Len(sent) \in {Len(all_raw), Len(all_raw) + 1}
          /\ ExchangeFailed
                => /\ pc = "raised"
                   /\ err = [type |-> "TransportError", where |-> "messages.create"]
                   /\ result = NoResult)
    /\ [][ExchangeFailed => UNCHANGED <<sent, invoked, total_tool_calls, tool_results, result, pc>>]_vars

\* the transport failed on the second exchange, after a tool was dispatched
C11_Witness ==
    /\ ExchangeFailed
    /\ Len(all_raw) = 1
    /\ Len(invoked) = 1
    /\ pc = "raised"

-----------------------------------------------------------------------------
(* C12 *)

\* the tool_use blocks of response k, which the loop dispatches when the
\* response's stop_reason is tool_use
DispatchedCalls(k) ==
    IF all_raw[k].stop_reason = "tool_use" THEN ToolUsesOf(all_raw[k].content) ELSE <<>>

\* the handler calls made for the invocation tc
InvokedFor(tc) == {j \in 1..Len(invoked) : invoked[j].tool_use_id = tc.id}

\* C12: for every registered name n with handler h and every argument object
\* a that h accepts, dispatch(n, a) returns h(**a) verbatim when h returns a
\* string and its JSON text otherwise, h being awaited first when it is a
\* coroutine function; h is called exactly once for the invocation.
C12_DispatchReturnsHandlerResult ==
    \A k \in 1..Len(all_raw) : \A i \in 1..Len(DispatchedCalls(k)) :
        LET tc == DispatchedCalls(k)[i]
            h == ToolOf(tools, tc.name).handler
            out == CallHandler(h, tc.input)
        IN (tc.name \in RegisteredNames /\ out.kind # "raise") =>
              /\ Cardinality(InvokedFor(tc)) <= 1
              /\ \A r \in AllToolResults :
                    r.tool_use_id = tc.id =>
                        /\ r.content = IF out.kind = "str" THEN out.val
                                       ELSE JsonDumpsInt(out.val)
                        /\ \E j \in InvokedFor(tc) :
                              /\ invoked[j].fn = h.name
                              /\ invoked[j].input = tc.input

\* one turn dispatched the coroutine function echo and the plain function add
C12_Witness ==
    /\ pc = "request"
    /\ Len(tool_results) = 2
    /\ tool_calls[1].name = "echo"
    /\ tool_results[1].content = <<"hi">>
    /\ tool_calls[2].name = "add"
    /\ tool_results[2].content = <<"1", "2">>
    /\ Len(invoked) = 2

-----------------------------------------------------------------------------
(* C13, C14 *)

\* the name a registration registers under
NameOf(r) == IF r.name \notin {NoneStr, MissingStr, ""} THEN r.name ELSE r.fn.name

\* the names registered so far
NamesRegistered == {NameOf(registrations[i]) : i \in 1..Len(registrations)}

\* the most recent registration under the name n
LastRegistration(n) ==
    registrations[CHOOSE i \in 1..Len(registrations) :
                     /\ NameOf(registrations[i]) = n
                     /\ \A j \in (i + 1)..Len(registrations) :
                           NameOf(registrations[j]) # n]

\* the entries of the registry, of a catalog, under the name n
RegistryEntries(n) == {i \in 1..Len(tools) : tools[i].name = n}
CatalogEntries(catalog, n) == {i \in 2..Len(catalog) : catalog[i].name = n}

\* C13: after any sequence of registrations, the registry and the catalog
\* hold exactly one entry per distinct name, the entry of a name holds the
\* handler of the most recent registration under it, dispatching the name
\* calls that handler and no other, and a registration leaves the entries
\* of the other names as they were.
C13_LastRegistrationWins ==
    /\ [](/\ Len(tools) = Cardinality(NamesRegistered)
          /\ \A n \in NamesRegistered :
                /\ Cardinality(RegistryEntries(n)) = 1
                /\ Cardinality(CatalogEntries(BuildTools(tools), n)) = 1
                /\ ToolOf(tools, n).handler = LastRegistration(n).fn
          /\ \A k \in 1..Len(sent) : \A n \in NamesRegistered :
                Cardinality(CatalogEntries(sent[k].tools, n)) = 1
          /\ \A j \in 1..Len(invoked) :
                /\ invoked[j].name \in NamesRegistered
                /\ invoked[j].fn = LastRegistration(invoked[j].name).fn.name)
    /\ [][Len(registrations') > Len(registrations) =>
             \A i \in 1..Len(tools) :
                 tools[i].name # NameOf(Last(registrations'))
                    => /\ HasTool(tools', tools[i].name)
                       /\ ToolOf(tools', tools[i].name) = tools[i]]_vars

\* add was registered twice, the second time through the name argument with
\* the function echo, and a dispatch of add reached echo
C13_Witness ==
    /\ Len(registrations) >= 3
    /\ \E i, j \in 1..Len(registrations) :
          /\ i < j
          /\ NameOf(registrations[i]) = "add" /\ registrations[i].fn.name = "add"
          /\ NameOf(registrations[j]) = "add" /\ registrations[j].fn.name = "echo"
    /\ \E j \in 1..Len(invoked) : invoked[j].name = "add" /\ invoked[j].fn = "echo"

\* the allowed_callers a caller setting stands for, as a set
AllowedCallersOf(caller) ==
    IF caller = "direct" THEN {"direct"}
    ELSE IF caller = "both" THEN {"direct", "code_execution_20260120"}
    ELSE {"code_execution_20260120"}

\* what C14 says of a catalog
CatalogAsClaimed(catalog) ==
    /\ Len(catalog) = 1 + Cardinality(NamesRegistered)
    /\ catalog[1] = [type |-> "code_execution_20260120", name |-> "code_execution"]
    /\ \A i \in 2..Len(catalog) :
          /\ catalog[i].name \in NamesRegistered
          /\ DOMAIN catalog[i] = {"name", "description", "input_schema", "allowed_callers"}
          /\ \A j \in 2..Len(catalog) : catalog[j].name = catalog[i].name => j = i
          /\ LET r == LastRegistration(catalog[i].name)
             IN /\ catalog[i].description = r.description
                /\ catalog[i].input_schema = r.input_schema
                /\ {catalog[i].allowed_callers[c] :
                        c \in 1..Len(catalog[i].allowed_callers)}
                       = AllowedCallersOf(r.caller)
    /\ registrations = <<>> => Len(catalog) = 1

\* C14: the catalog _build_tools returns, and every request carries, starts
\* with the code-execution entry and goes on with exactly one entry per
\* registered tool carrying its name, description, input_schema and
\* allowed_callers: direct alone for caller "direct", code execution alone
\* for "code_execution" (the default), both for "both"; with no tool
\* registered it is the code-execution entry alone.
C14_Catalog ==
    /\ CatalogAsClaimed(BuildTools(tools))
    /\ \A k \in 1..Len(sent) : sent[k].tools = BuildTools(tools)

\* a request went out with the catalog of a registry built by four
\* registrations under two names, one of them with caller "both"
C14_Witness ==
    /\ Len(registrations) = 4
    /\ Len(sent) >= 1
    /\ Len(sent[1].tools) = 3
    /\ \E i \in 2..3 : Len(sent[1].tools[i].allowed_callers) = 2

-----------------------------------------------------------------------------
(* C15 *)

\* the invocations of the first k responses, in the order the loop meets them
RECURSIVE CallsUpTo(_)
CallsUpTo(k) == IF k = 0 THEN <<>> ELSE CallsUpTo(k - 1) \o DispatchedCalls(k)

\* the lines print() wrote for dispatched invocations, in order
PrintedCalls == SelectSeq(printed, LAMBDA l : l.kind = "tool")

\* the caller tag of the invocation is explicitly direct
ExplicitlyDirect(tc) ==
    /\ "type" \in DOMAIN tc.caller
    /\ tc.caller.type = "direct"

\* every dispatched invocation is classified direct exactly when its caller
\* tag is explicitly direct
C15_ClassifiedAsTagged ==
    \A j \in 1..Len(PrintedCalls) :
        /\ PrintedCalls[j].name = CallsUpTo(Len(all_raw))[j].name
        /\ PrintedCalls[j].src = "direct" <=> ExplicitlyDirect(CallsUpTo(Len(all_raw))[j])

\* C15: an invocation is classified direct only if its caller tag is
\* explicitly direct; with the caller field missing, carrying no value, or
\* carrying any other tag it is programmatic, and in each of those cases the
\* classification completes and the invocation is dispatched.
C15_Classification ==
    /\ C15_ClassifiedAsTagged
    /\ ~(pc = "raised" /\ err.where = "_is_programmatic")

-----------------------------------------------------------------------------
(* C16 *)

\* the tokens response raw reports under key: zero when the response has no
\* usage field or the field lacks the key
TokensOf(raw, key) ==
    IF "py_missing" \in DOMAIN raw.usage THEN 0
    ELSE IF raw.usage[key] = MissingInt THEN 0
    ELSE raw.usage[key]

RECURSIVE TokenSum(_, _)
TokenSum(raw, key) ==
    IF Len(raw) = 0 THEN 0 ELSE TokensOf(Head(raw), key) + TokenSum(Tail(raw), key)

\* C16: for every run that returns, total_input_tokens and
\* total_output_tokens are the sums of input_tokens and output_tokens over
\* every response received, the final one included, a response without a
\* usage field counting zero; the totals start at zero and never decrease.
C16_TokenTotals ==
    /\ [](/\ Len(all_raw) = 0 => (total_input = 0 /\ total_output = 0)
          /\ total_input = TokenSum(all_raw, "input_tokens")
          /\ total_output = TokenSum(all_raw, "output_tokens")
          /\ pc = "returned" =>
                /\ result.total_input_tokens = TokenSum(all_raw, "input_tokens")
                /\ result.total_output_tokens = TokenSum(all_raw, "output_tokens"))
    /\ [][total_input' >= total_input /\ total_output' >= total_output]_vars

\* a run returned after three responses: one without usage, one with both
\* counts, the final one with input_tokens alone
C16_Witness ==
    /\ pc = "returned"
    /\ Len(all_raw) = 3
    /\ all_raw[1].usage = Missing
    /\ all_raw[2].usage = Usage(2, 1)
    /\ all_raw[3].usage = Usage(5, MissingInt)
    /\ result.total_input_tokens = 7
    /\ result.total_output_tokens = 1

-----------------------------------------------------------------------------
(* C17 *)

\* the response carries a session handle
CarriesHandle(raw) ==
    /\ "id" \in DOMAIN raw.container
    /\ raw.container.id \notin {"<missing>", "<None>"}

\* the handle in force after k responses: that of the last response that
\* carried one, else the one the caller supplied
RECURSIVE HandleAfter(_)
HandleAfter(k) ==
    IF k = 0 THEN container_arg
    ELSE IF CarriesHandle(all_raw[k]) THEN all_raw[k].container.id
    ELSE HandleAfter(k - 1)

\* C17: request k+1 carries the handle of the last of the first k responses
\* that carried one, and the caller-supplied handle when none did (the
\* first request: the caller-supplied handle if given, none otherwise);
\* RunResult.container_id is the handle of the last response that carried
\* one, else the caller-supplied handle, None only if there is neither.
C17_SessionHandle ==
    /\ \A k \in 1..Len(sent) :
          sent[k].container = IF HandleAfter(k - 1) = "<None>" THEN "<missing>"
                              ELSE HandleAfter(k - 1)
    /\ pc = "returned" => result.container_id = HandleAfter(Len(all_raw))

\* the caller supplied c0; the first response carried c1, the second no
\* descriptor, the third c2: the requests carried c0, c1, c1 and the
\* RunResult holds c2
C17_Witness ==
    /\ pc = "returned"
    /\ container_arg = "c0"
    /\ Len(all_raw) = 3
    /\ CarriesHandle(all_raw[1]) /\ all_raw[1].container.id = "c1"
    /\ ~CarriesHandle(all_raw[2])
    /\ CarriesHandle(all_raw[3]) /\ all_raw[3].container.id = "c2"
    /\ sent[1].container = "c0"
    /\ sent[2].container = "c1"
    /\ sent[3].container = "c1"
    /\ result.container_id = "c2"

-----------------------------------------------------------------------------
(* C18 *)

\* the response carries a descriptor with an ISO-8601 expires_at: the
\* session's remaining time is above the buffer, below it, or negative
HasExpiry(raw) ==
    /\ "expires_at" \in DOMAIN raw.container
    /\ "t" \in DOMAIN raw.container.expires_at

\* the timestamp carries a UTC offset
HasOffset(raw) == HasExpiry(raw) /\ raw.container.expires_at.aware

RemainingOf(raw) == raw.container.expires_at.t - NowUtc

\* the loop state after the response raw as its stop reason, content, usage
\* and handle alone determine it: expires_at does not occur here
StepWithoutExpiry(raw) ==
    LET calls == ToolUsesOf(raw.content)
        closed == raw.stop_reason = "tool_use" /\ calls = <<>>
    IN /\ messages' = IF closed
                      THEN messages \o <<[role |-> "assistant", content |-> raw.content],
                                         [role |-> "user", content |-> <<>>]>>
                      ELSE messages
       /\ total_input' = total_input + TokensOf(raw, "input_tokens")
       /\ total_output' = total_output + TokensOf(raw, "output_tokens")
       /\ total_tool_calls' = total_tool_calls
       /\ container_id' = IF CarriesHandle(raw) THEN raw.container.id ELSE container_id
       /\ invoked' = invoked
       /\ err' = err
       /\ pc' = IF raw.stop_reason # "tool_use" THEN "returned"
                ELSE IF closed THEN "request" ELSE "dispatch"
       /\ pc' = "returned" =>
             /\ result'.container_id = container_id'
             /\ result'.tool_calls_made = total_tool_calls
             /\ result'.total_input_tokens = total_input'
             /\ result'.total_output_tokens = total_output'
             /\ result'.text =
                   IF raw.stop_reason = "end_turn" \/ NewlineJoined(raw.content, 1) # <<>>
                   THEN NewlineJoined(raw.content, 1)
                   ELSE <<"Unexpected stop: ", raw.stop_reason>>
       /\ pc' # "returned" => result' = result

\* the expiry check of a timestamp with a UTC offset is advisory
C18_AdvisoryWithOffset ==
    /\ []((Len(all_raw) > 0 /\ HasOffset(Last(all_raw)))
              => ~(pc = "raised" /\ err.where = "_check_container_expiry"))
    /\ [][(Len(all_raw') = Len(all_raw) + 1 /\ HasOffset(Last(all_raw')))
              => StepWithoutExpiry(Last(all_raw'))]_vars

\* C18: the expiry check is advisory: whether the remaining time of the
\* session is above the buffer, below it or negative, the run does not
\* abort in the check, and the step that receives the response leaves the
\* conversation, the counters, the handle, the next position of the loop
\* and the RunResult as they are for a response without expiry.
C18_ExpiryAdvisory ==
    /\ []((Len(all_raw) > 0 /\ HasExpiry(Last(all_raw)))
              => ~(pc = "raised" /\ err.where = "_check_container_expiry"))
    /\ [][(Len(all_raw') = Len(all_raw) + 1 /\ HasExpiry(Last(all_raw')))
              => StepWithoutExpiry(Last(all_raw'))]_vars

\* a run returned after a response far from expiry, one close to it and
\* one already expired; the last two were warned about
C18_WarnedTwice ==
    /\ pc = "returned"
    /\ Len(all_raw) = 3
    /\ \A k \in 1..3 : HasOffset(all_raw[k])
    /\ RemainingOf(all_raw[1]) >= TimeoutBuffer
    /\ RemainingOf(all_raw[2]) \in 0..(TimeoutBuffer - 1)
    /\ RemainingOf(all_raw[3]) < 0
    /\ Len(SelectSeq(printed, LAMBDA l : l.kind = "expiry")) = 2
    /\ result.container_id = all_raw[3].container.id

-----------------------------------------------------------------------------
(* C19 *)

\* the invocations the for loop has taken up so far, in order
CallsTaken ==
    [j \in 1..total_tool_calls |-> CallsUpTo(Len(all_raw))[j]]

\* the tool_result entries built for the invocation tc
ResultsFor(tc) == {r \in AllToolResults : r.tool_use_id = tc.id}

\* the invocation tc is dispatched whatever its caller tag and whatever the
\* allowed_callers of its tool: its handler is called with the arguments of
\* tc and a tool_result is built, the same for every invocation of that
\* tool with those arguments
DispatchedWhateverTag(tc) ==
    /\ \E j \in InvokedFor(tc) :
          /\ invoked[j].fn = ToolOf(tools, tc.name).handler.name
          /\ invoked[j].input = tc.input
    /\ ResultsFor(tc) # {}
    /\ \A j \in 1..Len(CallsTaken) :
          (CallsTaken[j].name = tc.name /\ CallsTaken[j].input = tc.input) =>
              \A r1 \in ResultsFor(tc), r2 \in ResultsFor(CallsTaken[j]) :
                  /\ r1.type = r2.type
                  /\ r1.content = r2.content

\* the caller tag is direct, a code-execution tag, or the key is missing
C19_TagGivenOrMissing ==
    \A j \in 1..Len(CallsTaken) :
        (CallsTaken[j].name \in RegisteredNames
            /\ "py_none" \notin DOMAIN CallsTaken[j].caller)
                => DispatchedWhateverTag(CallsTaken[j])

\* C19: the dispatcher executes any registered tool regardless of the
\* caller tag: invocations that differ only in the tag (direct, code
\* execution, absent), whatever the tool's allowed_callers, have their
\* handler called with the same arguments and get the same tool_result.
C19_CallerTagIgnored ==
    \A j \in 1..Len(CallsTaken) :
        CallsTaken[j].name \in RegisteredNames => DispatchedWhateverTag(CallsTaken[j])

\* add, whose allowed_callers is direct alone, was dispatched under the
\* direct tag, a code-execution tag and without the caller key
C19_ThreeTags ==
    /\ Len(tool_results) = 3
    /\ \A i \in 1..3 : tool_calls[i].name = "add" /\ tool_results[i].content = <<"1", "2">>
    /\ ExplicitlyDirect(tool_calls[1])
    /\ "py_missing" \in DOMAIN tool_calls[2].caller
    /\ "type" \in DOMAIN tool_calls[3].caller /\ ~ExplicitlyDirect(tool_calls[3])

-----------------------------------------------------------------------------
(* C20 *)

\* the results built so far in the turn that is open or was closed last
\* answer its first invocations, in the order the model emitted them
ResultsInEmittedOrder ==
    (Len(all_raw) > 0 /\ Last(all_raw).stop_reason = "tool_use") =>
        LET emitted == ToolUsesOf(Last(all_raw).content)
        IN /\ tool_calls = emitted
           /\ Len(tool_results) <= Len(emitted)
           /\ \A i \in 1..Len(tool_results) : tool_results[i].tool_use_id = emitted[i].id

\* a handler is started for invocation idx of the turn only when the
\* invocations before it have their results
StartsAfterEarlierCompleted ==
    Len(invoked') > Len(invoked) =>
        /\ pc = "dispatch"
        /\ Len(invoked') = Len(invoked) + 1
        /\ Last(invoked').tool_use_id = ToolUsesOf(Last(all_raw).content)[idx].id
        /\ Len(tool_results) = idx - 1
        /\ \A i \in 1..(idx - 1) :
              tool_results[i].tool_use_id = ToolUsesOf(Last(all_raw).content)[i].id

\* a request is made only when every invocation of the turn before it has
\* its result in the conversation
ExchangesAfterTurnCompleted ==
    Len(sent') > Len(sent) =>
        (Len(all_raw) > 0 =>
            LET emitted == ToolUsesOf(Last(all_raw).content)
                answered == Last(messages).content
            IN /\ Last(all_raw).stop_reason = "tool_use"
               /\ Len(messages) = 2 * Len(all_raw) + 1
               /\ Len(answered) = Len(emitted)
               /\ \A i \in 1..Len(emitted) : answered[i].tool_use_id = emitted[i].id)

\* C20: within one tool_use turn the invocations are processed one at a
\* time in the order the model emitted them: the handler of invocation i+1
\* is not started before the dispatch of invocation i has completed, and
\* the next exchange is not made before every invocation of the turn has
\* completed.
C20_OneAtATimeInOrder ==
    /\ []ResultsInEmittedOrder
    /\ [][StartsAfterEarlierCompleted /\ ExchangesAfterTurnCompleted]_vars

\* a turn of three invocations was processed and the next request made
C20_Witness ==
    /\ Len(sent) = 2
    /\ Len(ToolUsesOf(all_raw[1].content)) = 3
    /\ Len(messages[3].content) = 3
    /\ Len(invoked) >= 2
    /\ invoked[1].tool_use_id < invoked[2].tool_use_id

-----------------------------------------------------------------------------
(* C21 *)

\* the two runs of the client, as their locals stand
Runs == {Locals, parked}

\* the handle in force in run f after its first k responses
RECURSIVE HandleOfRun(_, _)
HandleOfRun(f, k) ==
    IF k = 0 THEN f.container_arg
    ELSE IF CarriesHandle(f.all_raw[k]) THEN f.all_raw[k].container.id
    ELSE HandleOfRun(f, k - 1)

\* the responses of run f whose invocations are all answered
TurnsClosed(f) ==
    IF f.pc \in {"dispatch", "awaiting"} THEN Len(f.all_raw) - 1
    ELSE Cardinality({k \in 1..Len(f.all_raw) : f.all_raw[k].stop_reason = "tool_use"})

\* the invocations of run f the for loop has taken up
CallsTakenBy(f) ==
    IF f.pc = "dispatch"
    THEN ToolUseCount(SubSeq(f.all_raw, 1, Len(f.all_raw) - 1)) + f.idx - 1
    ELSE IF f.pc = "awaiting"
    THEN ToolUseCount(SubSeq(f.all_raw, 1, Len(f.all_raw) - 1)) + f.idx
    ELSE ToolUseCount(f.all_raw)

\* the user turn that answers the invocations of content, the handlers
\* being functions of their arguments alone
AnswersTo(content) ==
    [i \in 1..Len(ToolUsesOf(content)) |->
        [type |-> "tool_result",
         tool_use_id |-> ToolUsesOf(content)[i].id,
         content |-> ExecuteTool(tools, ToolUsesOf(content)[i].name,
                                 ToolUsesOf(content)[i].input).value]]

\* the conversation of run f is its own user message followed by its own
\* closed turns
OwnConversation(f) ==
    /\ Len(f.messages) = 2 * TurnsClosed(f) + 1
    /\ f.messages[1] = [role |-> "user", content |-> f.user_message]
    /\ \A k \in 1..TurnsClosed(f) :
          /\ f.messages[2 * k] = [role |-> "assistant", content |-> f.all_raw[k].content]
          /\ f.messages[2 * k + 1] =
                [role |-> "user", content |-> AnswersTo(f.all_raw[k].content)]

\* the loop state of run f is what its own user message, its own
\* container_id argument and its own responses make it
OwnLoopState(f) ==
    /\ OwnConversation(f)
    /\ f.total_tool_calls = CallsTakenBy(f)
    /\ f.total_input = TokenSum(f.all_raw, "input_tokens")
    /\ f.total_output = TokenSum(f.all_raw, "output_tokens")
    /\ f.container_id = HandleOfRun(f, Len(f.all_raw))
    /\ f.pc = "returned" =>
          f.result = [text |-> NewlineJoined(Last(f.all_raw).content, 1),
                      tool_calls_made |-> ToolUseCount(f.all_raw),
                      container_id |-> HandleOfRun(f, Len(f.all_raw)),
                      total_input_tokens |-> TokenSum(f.all_raw, "input_tokens"),
                      total_output_tokens |-> TokenSum(f.all_raw, "output_tokens"),
                      raw_messages |-> f.all_raw]

\* C21: two runs of one client interleaved at their suspension points share
\* no loop state: the conversation, the count of tool calls, the token
\* totals and the session handle of each run are determined by that run's
\* own user message and own responses, so each RunResult is the one the
\* run produces alone (handlers without shared state, registry unchanged).
C21_RunsIsolated == \A f \in Runs : OwnLoopState(f)

\* one run has returned while the other, started in between, is suspended
\* in a handler; the two differ in conversation, counters and handle
C21_Witness ==
    /\ pc = "returned"
    /\ parked.pc = "awaiting"
    /\ result.tool_calls_made = 3
    /\ result.container_id = "c1"
    /\ result.total_input_tokens = 9
    /\ parked.total_tool_calls = 1
    /\ parked.container_id # "c1"
    /\ parked.total_input = 2

-----------------------------------------------------------------------------
(* C22 *)

\* the tool_use blocks of response k, whatever its stop_reason
BlocksOf(k) == ToolUsesOf(all_raw[k].content)

\* the run has ended
RunOver == pc \in {"returned", "raised"}

\* a handler is called only for a tool_use block with a registered name of
\* a response whose stop_reason is tool_use, and at most once for it; the
\* blocks of a terminal response are not counted
C22_NeverOtherwise ==
    /\ \A j \in 1..Len(invoked) :
          \E k \in 1..Len(all_raw) : \E i \in 1..Len(DispatchedCalls(k)) :
              /\ DispatchedCalls(k)[i].id = invoked[j].tool_use_id
              /\ DispatchedCalls(k)[i].name = invoked[j].name
              /\ invoked[j].name \in RegisteredNames
    /\ \A k \in 1..Len(all_raw) : \A i \in 1..Len(BlocksOf(k)) :
          /\ Cardinality(InvokedFor(BlocksOf(k)[i])) <= 1
          /\ all_raw[k].stop_reason # "tool_use" => InvokedFor(BlocksOf(k)[i]) = {}
    /\ total_tool_calls <= ToolUseCount(all_raw)
    /\ pc = "returned" => result.tool_calls_made = ToolUseCount(all_raw)

\* in a run that returned, every tool_use block with a registered name of a
\* tool_use response had its handler called exactly once
C22_ExactlyOnceWhenReturned ==
    pc = "returned" =>
        \A k \in 1..Len(all_raw) : \A i \in 1..Len(DispatchedCalls(k)) :
            DispatchedCalls(k)[i].name \in RegisteredNames
                => Cardinality(InvokedFor(DispatchedCalls(k)[i])) = 1

\* C22: over a whole run a handler is called exactly once for each tool_use
\* block with a registered name of a response whose stop_reason is
\* tool_use, and never otherwise: the tool_use blocks of a terminal
\* response are neither dispatched nor counted, and no invocation is
\* dispatched twice.
C22_ExactlyOncePerInvocation ==
    /\ C22_NeverOtherwise
    /\ RunOver =>
          \A k \in 1..Len(all_raw) : \A i \in 1..Len(DispatchedCalls(k)) :
              DispatchedCalls(k)[i].name \in RegisteredNames
                  => Cardinality(InvokedFor(DispatchedCalls(k)[i])) = 1

\* a run returned whose final response held a tool_use block that was not
\* dispatched, after a turn whose two invocations were dispatched once each
C22_TerminalBlockIgnored ==
    /\ pc = "returned"
    /\ Len(all_raw) = 2
    /\ Len(DispatchedCalls(1)) = 2
    /\ Len(BlocksOf(2)) = 1
    /\ BlocksOf(2)[1].name \in RegisteredNames
    /\ Len(invoked) = 2
    /\ result.tool_calls_made = 2

=============================================================================
